---- MODULE Spec2Model ----
(***************************************************************************)
(* GSync v2 "Grid Clash": the authority (src/server.py, GridServer) and    *)
(* the client (src/client_pygame.py, GameClient) as state machines over    *)
(* byte-level datagrams.                                                   *)
(*                                                                         *)
(* A datagram is a sequence of bytes (0..255) laid out as the code's       *)
(* HEADER_STRUCT "!4s B B I I Q H I" (28 bytes, big-endian) followed by    *)
(* the payload.  binascii.crc32 is modelled by a polynomial checksum       *)
(* modulo a prime: like CRC-32 it depends on every byte it covers and any  *)
(* change of a single byte changes it.  time.time() is modelled by a       *)
(* clock that always reads the same value.                                 *)
(***************************************************************************)
EXTENDS Integers, Sequences, FiniteSets, TLC

(***************************************************************************)
(* Bounds of the model.                                                    *)
(***************************************************************************)
\* side of the grid (GRID_N = 10 in the source, scaled down)
GRID_N == 1
\* rows of server_events.csv (EVENT datagrams resolved) in one session
MaxEvents == 3
\* broadcast ticks of one session
MaxTicks == 4
\* datagrams the client's receive loop consumes in one session
MaxClientRecv == 5
\* largest sequence number on a datagram injected at the client
MaxSeq == 5
\* claims (mouse clicks) the client makes in one session
MaxClicks == 1

(***************************************************************************)
(* Values fixed by the protocol.                                           *)
(***************************************************************************)
HEADER_SIZE == 28
PROTO_ID == <<71, 83, 89, 78>>
VERSION_server == 2
VERSION_client == 1
MSG_SNAPSHOT == 0
MSG_EVENT == 1
MSG_ACK == 2
MSG_INIT == 3
MSG_GAME_OVER == 4
\* snapshot_history = deque(maxlen=3)
K == 3
\* the clock reading of now_ms()
now_ms == 5

NumCells == GRID_N * GRID_N
Min(a, b) == IF a < b THEN a ELSE b

(***************************************************************************)
(* Wire codec: struct.pack / struct.unpack and the checksum.               *)
(***************************************************************************)
PackU16(v) == <<(v \div 256) % 256, v % 256>>
PackU32(v) == <<(v \div 16777216) % 256, (v \div 65536) % 256,
                (v \div 256) % 256, v % 256>>
\* the model's values stay below 2^31, so the upper four bytes are 0
PackU64(v) == <<0, 0, 0, 0>> \o PackU32(v)
UnpackU16(b) == b[1] * 256 + b[2]
\* the model's values stay below 2^31, so the top byte is below 128
UnpackU32(b) == ((b[1] % 128) * 256 + b[2]) * 65536 + b[3] * 256 + b[4]
UnpackU64(b) == UnpackU32(SubSeq(b, 5, 8))

RECURSIVE crc32_from(_, _, _)
crc32_from(data, i, acc) ==
    IF i > Len(data) THEN acc
    ELSE crc32_from(data, i + 1, (acc * 31 + data[i]) % 65521)
crc32(data) == crc32_from(data, 1, 1)

\* HEADER_STRUCT.pack(proto_id, version, msg_type, snap_id, seq_no,
\*                    server_ts, payload_len, checksum)
HeaderPack(proto_id, version, msg_type, snap_id, seq_no, server_ts, payload_len, checksum) ==
    proto_id \o <<version, msg_type>> \o PackU32(snap_id) \o PackU32(seq_no)
        \o PackU64(server_ts) \o PackU16(payload_len) \o PackU32(checksum)

\* HEADER_STRUCT.unpack(data[:28])
HeaderUnpack(header) ==
    [proto_id    |-> SubSeq(header, 1, 4),
     version     |-> header[5],
     msg_type    |-> header[6],
     snapshot_id |-> UnpackU32(SubSeq(header, 7, 10)),
     seq_num     |-> UnpackU32(SubSeq(header, 11, 14)),
     server_ts   |-> UnpackU64(SubSeq(header, 15, 22)),
     payload_len |-> UnpackU16(SubSeq(header, 23, 24)),
     checksum    |-> UnpackU32(SubSeq(header, 25, 28))]

\* the three-step encoder both ends use: header with checksum 0, crc32 over
\* header_zero + payload, header again with the checksum filled in
Encode(version, msg_type, snap_id, seq_no, ts, payload) ==
    LET header_zero == HeaderPack(PROTO_ID, version, msg_type, snap_id,
                                  seq_no, ts, Len(payload), 0)
        crc == crc32(header_zero \o payload)
    IN  HeaderPack(PROTO_ID, version, msg_type, snap_id, seq_no, ts,
                   Len(payload), crc) \o payload

\* a decoder that does not compare the checksum
Decode_NoChecksum(version, data) ==
    IF Len(data) < HEADER_SIZE THEN [ok |-> FALSE, why |-> "short", raw |-> data]
    ELSE LET h == HeaderUnpack(SubSeq(data, 1, HEADER_SIZE))
             payload == SubSeq(data, HEADER_SIZE + 1,
                               Min(Len(data), HEADER_SIZE + h.payload_len))
         IN  IF h.proto_id # PROTO_ID \/ h.version # version
             THEN [ok |-> FALSE, why |-> "proto", raw |-> data]
             ELSE [ok |-> TRUE, why |-> "", raw |-> data, msg_type |-> h.msg_type,
                   snapshot_id |-> h.snapshot_id, seq_num |-> h.seq_num,
                   server_ts |-> h.server_ts, payload_len |-> h.payload_len,
                   payload |-> payload]
\* the decoder of a receive loop whose VERSION is `version`:
\* ok = FALSE is the datagram being dropped by one of the three `continue`s
Decode(version, data) ==
    IF Len(data) < HEADER_SIZE THEN [ok |-> FALSE, why |-> "short", raw |-> data]
    ELSE LET h == HeaderUnpack(SubSeq(data, 1, HEADER_SIZE))
             payload == SubSeq(data, HEADER_SIZE + 1,
                               Min(Len(data), HEADER_SIZE + h.payload_len))
             header_zero == HeaderPack(h.proto_id, h.version, h.msg_type,
                                       h.snapshot_id, h.seq_num, h.server_ts,
                                       h.payload_len, 0)
         IN  IF h.proto_id # PROTO_ID \/ h.version # version
             THEN [ok |-> FALSE, why |-> "proto", raw |-> data]
             ELSE IF crc32(header_zero \o payload) # h.checksum
             THEN [ok |-> FALSE, why |-> "crc", raw |-> data]
             ELSE [ok |-> TRUE, why |-> "", raw |-> data, msg_type |-> h.msg_type,
                   snapshot_id |-> h.snapshot_id, seq_num |-> h.seq_num,
                   server_ts |-> h.server_ts, payload_len |-> h.payload_len,
                   payload |-> payload]
ServerDecode(data) == Decode(VERSION_server, data)
ClientDecode(data) == Decode(VERSION_client, data)

(***************************************************************************)
(* Inputs of the model.                                                    *)
(***************************************************************************)
\* transport addresses: "c1" is where the GameClient of this repository is
\* bound, "p2" and "p3" are other peers
Peers == {"p2", "p3"}
\* player-id bytes carried by injected EVENT datagrams: the id of no player,
\* an id of the documented range 1..8, an id outside it
PlayerBytes == {0, 1, 9}
\* the --player_id of the GameClient
ClientPlayerIds == {1}

(***************************************************************************)
(* State.                                                                  *)
(***************************************************************************)
VARIABLES
    \* GridServer fields
    clients, running, snapshot_id, seq_num, grid, snapshot_history,
    \* server_snapshots.csv: one row <<snapshot_id, seq_num, payload_len>> per tick
    snap_log,
    \* server_events.csv: number of rows, the last row, and per cell the
    \* player ids of the rows with accepted = 1, in order
    event_count, event_last, event_accepted,
    \* server_authoritative_grid.csv: the last row <<snapshot_id, grid_state>>
    pos_last,
    \* broadcast_loop: position and locals
    b_pc, b_payload, b_combined, b_clients, b_grid_state, b_packet, b_sent,
    b_go_payload, go_sent,
    \* every payload build_snapshot_payload returned, oldest first
    built,
    \* recv_loop: alive; the number of invalid datagrams (too short, wrong tag
    \* or version, changed after the checksum was computed) it has taken,
    \* modulo 2
    recv_alive, rx_invalid,
    \* start(): the finally block has run
    main_done,
    \* datagrams in flight: client -> authority, authority -> "c1"; the number
    \* of datagrams for "c1" lost since the last one it was handed, that
    \* number as it was when the last one was handed over, and what the
    \* client's validation made of that one (empty once the client has taken
    \* a datagram of a peer after it)
    to_server, net_c1, c1_missed, c1_gap, c1_last,
    \* GameClient fields
    c_started, c_player_id, c_grid, c_game_over, c_winner_id, c_final_scores,
    c_metrics, c_redundancy_used, c_clicks,
    \* GameClient.recv_loop: datagrams consumed, whether the last one was
    \* invalid, sequence numbers of the SNAPSHOT packets handled so far
    c_rx_count, c_rx_invalid, c_seq_seen,
    \* the id of the first tick built after the authority consumed the
    \* client's first EVENT datagram (-1: none consumed yet)
    ev_done_at,
    \* broadcast_loop: the endpoints whose sendto raised in the last tick
    b_failed,
    \* the fields of the authority that an activity has read or written at a
    \* point where it did not hold self.lock, and the message types the
    \* client has sent at a point where it held its lock
    unlocked_access, locked_sends,
    \* a grid handed to compute_game_over_payload, and what it returned
    t_grid, t_out,
    \* a payload and a grid handed to the parse loop of handle_snapshot, and
    \* what the loop left
    p_in, p_out,
    \* the players in the order in which the authority first accepted a claim
    \* of each
    t_order

serverVars == <<clients, running, snapshot_id, seq_num, grid, snapshot_history,
                snap_log, event_count, event_last, event_accepted, pos_last>>
bcastVars == <<b_pc, b_payload, b_combined, b_clients, b_grid_state, b_packet,
               b_sent, b_failed,
               b_go_payload, go_sent, built>>
recvVars == <<recv_alive, rx_invalid, main_done>>
netVars == <<to_server, net_c1, c1_missed, c1_gap, c1_last, ev_done_at>>
clientVars == <<c_started, c_player_id, c_grid, c_game_over, c_winner_id,
                c_final_scores, c_metrics, c_redundancy_used, c_clicks>>
clientRxVars == <<c_rx_count, c_rx_invalid, c_seq_seen>>
auditVars == <<unlocked_access, locked_sends>>
tallyVars == <<t_grid, t_out, p_in, p_out, t_order>>
vars == <<serverVars, bcastVars, recvVars, netVars, clientVars, clientRxVars,
          auditVars, tallyVars>>

EmptyGrid == [i \in 1..NumCells |-> 0]

InitProgram ==
    /\ clients = {}
    /\ running = TRUE
    /\ snapshot_id = 0
    /\ seq_num = 0
    /\ grid = EmptyGrid
    /\ snapshot_history = <<>>
    /\ snap_log = <<>>
    /\ event_count = 0
    /\ event_last = <<>>
    /\ event_accepted = [c \in 0..(NumCells - 1) |-> <<>>]
    /\ pos_last = <<>>
    /\ b_pc = "top"
    /\ b_payload = <<>>
    /\ b_combined = <<>>
    /\ b_clients = {}
    /\ b_grid_state = <<>>
    /\ b_packet = <<>>
    /\ b_sent = {}
    /\ b_go_payload = <<>>
    /\ go_sent = [e \in {} |-> 0]
    /\ built = <<>>
    /\ recv_alive = TRUE
    /\ rx_invalid = 0
    /\ main_done = FALSE
    /\ to_server = <<>>
    /\ net_c1 = <<>>
    /\ c1_missed = 0
    /\ c1_gap = 0
    /\ c1_last = <<>>
    /\ ev_done_at = -1
    /\ c_started = FALSE
    /\ c_player_id \in ClientPlayerIds
    /\ c_grid = EmptyGrid
    /\ c_game_over = FALSE
    /\ c_winner_id = 0
    /\ c_final_scores = <<>>
    /\ c_metrics = [total_packets_received |-> 0, duplicate_packets |-> 0,
                    lost_sequences |-> 0, last_seq_num |-> -1]
    /\ c_redundancy_used = 0
    /\ c_clicks = 0
    /\ c_rx_count = 0
    /\ c_rx_invalid = FALSE
    /\ c_seq_seen = <<>>
    /\ b_failed = {}
    /\ unlocked_access = {}
    /\ locked_sends = {}

Init ==
    /\ InitProgram
    /\ t_grid = <<>>
    /\ t_out = <<>>
    /\ p_in = <<>>
    /\ p_out = <<>>
    /\ t_order = <<>>

(***************************************************************************)
(* GridServer.recv_loop: one iteration, for a datagram from address `addr`  *)
(* that lines 104-127 decoded to `m`.                                      *)
(***************************************************************************)
\* the range test of line 146 without its ownership test
CanClaim_RangeOnly(g, cell_id) == 0 <= cell_id /\ cell_id < NumCells
\* line 146: the cell is in range and unclaimed
CanClaim(g, cell_id) ==
    0 <= cell_id /\ cell_id < NumCells /\ g[cell_id + 1] = 0

\* lines 136-155: resolve the claim under the lock, then log the row
\* lines 136-155 with the log row written only for an accepted request
HandleEvent_LogsAcceptedOnly(payload, addr) ==
    LET player_id == payload[1]
        event_type == payload[2]
        cell_id == UnpackU16(SubSeq(payload, 3, 4))
        client_ts == UnpackU64(SubSeq(payload, 5, 12))
        accepted == IF CanClaim(grid, cell_id) THEN 1 ELSE 0
    IN  /\ grid' = IF accepted = 1
                   THEN [grid EXCEPT ![cell_id + 1] = player_id]
                   ELSE grid
        /\ event_count' = event_count + accepted
        /\ event_last' = IF accepted = 1
                         THEN [from |-> addr, player_id |-> player_id,
                               event_type |-> event_type, cell_id |-> cell_id,
                               client_ts |-> client_ts, accepted |-> accepted]
                         ELSE event_last
        /\ event_accepted' =
               IF accepted = 1
               THEN [event_accepted EXCEPT
                        ![cell_id] = Append(@, player_id)]
               ELSE event_accepted
        /\ UNCHANGED clients
HandleEvent(payload, addr) ==
    LET player_id == payload[1]
        event_type == payload[2]
        cell_id == UnpackU16(SubSeq(payload, 3, 4))
        client_ts == UnpackU64(SubSeq(payload, 5, 12))
        accepted == IF CanClaim(grid, cell_id) THEN 1 ELSE 0
    IN  /\ grid' = IF accepted = 1
                   THEN [grid EXCEPT ![cell_id + 1] = player_id]
                   ELSE grid
        /\ event_count' = event_count + 1
        /\ event_last' = [from |-> addr, player_id |-> player_id,
                          event_type |-> event_type, cell_id |-> cell_id,
                          client_ts |-> client_ts, accepted |-> accepted]
        /\ event_accepted' =
               IF accepted = 1
               THEN [event_accepted EXCEPT
                        ![cell_id] = Append(@, player_id)]
               ELSE event_accepted
        /\ UNCHANGED clients

\* line 132 with an assignment in place of the add
Register_Replace(registered, addr) == {addr}
\* line 132: self.clients.add(addr)
Register(registered, addr) == registered \cup {addr}

ServerHandle(m, addr) ==
        /\ recv_alive
        /\ recv_alive' = running
        /\ IF ~m.ok
           THEN UNCHANGED <<clients, grid, event_count, event_last, event_accepted>>
           ELSE IF m.msg_type = MSG_INIT
           THEN /\ clients' = Register(clients, addr)
                /\ UNCHANGED <<grid, event_count, event_last, event_accepted>>
           ELSE IF m.msg_type = MSG_EVENT /\ Len(m.payload) >= 12
           THEN /\ event_count < MaxEvents
                /\ HandleEvent(m.payload, addr)
           ELSE UNCHANGED <<clients, grid, event_count, event_last, event_accepted>>
        /\ UNCHANGED <<running, snapshot_id, seq_num, snapshot_history, snap_log,
                       pos_last, main_done>>
        /\ UNCHANGED bcastVars
        /\ UNCHANGED <<auditVars, tallyVars>>

(***************************************************************************)
(* GridServer.broadcast_loop, split where other activities can interleave: *)
(* build (no lock), the locked section, send and log, the game-over check, *)
(* the second locked section, the GAME_OVER sends.                         *)
(***************************************************************************)
\* build_snapshot_payload: struct.pack("!B", GRID_N) + bytes(self.grid)
build_snapshot_payload(g) == <<GRID_N>> \o g

\* deque(maxlen=K).append: push at the back, the front falls out
AppendRight(history, payload) ==
    LET all == Append(history, payload)
    IN  SubSeq(all, Len(all) - Min(K, Len(all)) + 1, Len(all))
\* deque(maxlen=K).appendleft: push in front, the oldest falls out
AppendLeft(history, payload) ==
    SubSeq(<<payload>> \o history, 1, Min(K, Len(history) + 1))

\* b"".join(snapshot_history)
RECURSIVE Join(_)
Join(chunks) ==
    IF chunks = <<>> THEN <<>> ELSE Head(chunks) \o Join(Tail(chunks))

\* compute_game_over_payload, lines 171-179: the tally, and max(scores,
\* key=scores.get), which returns the first key in the dict's insertion order
\* (the order of first appearance in the scan of the grid) with the largest count
Score(g, owner) == Cardinality({i \in 1..Len(g) : g[i] = owner})
FirstIndex(g, owner) == CHOOSE i \in 1..Len(g) :
    g[i] = owner /\ \A j \in 1..(i - 1) : g[j] # owner
Owners(g) == {g[i] : i \in 1..Len(g)} \ {0}
\* the first key of the dict, whatever its count
Winner_FirstKey(g) == g[1]
\* the smallest player id among the largest counts
Winner_SmallestId(g) == CHOOSE w \in Owners(g) :
    /\ \A o \in Owners(g) : Score(g, o) <= Score(g, w)
    /\ \A o \in Owners(g) : Score(g, o) = Score(g, w) => w <= o
Winner(g) == CHOOSE w \in Owners(g) :
    /\ \A o \in Owners(g) : Score(g, o) <= Score(g, w)
    /\ \A o \in Owners(g) :
          Score(g, o) = Score(g, w) => FirstIndex(g, w) <= FirstIndex(g, o)

\* lines 184-186: winner, number of players, then (pid, count) by ascending pid
RECURSIVE ScorePairs(_, _)
ScorePairs(g, pids) ==
    IF pids = {} THEN <<>>
    ELSE LET pid == CHOOSE p \in pids : \A q \in pids : p <= q
         IN  <<pid, Score(g, pid)>> \o ScorePairs(g, pids \ {pid})
\* lines 167-169 without the test for an unclaimed cell
compute_game_over_payload_NoFullTest(g) ==
    [is_full |-> TRUE, payload |-> <<0, 0>>]
\* lines 167-169 returning at once, as for a grid with an unclaimed cell
compute_game_over_payload_NeverFull(g) ==
    [is_full |-> FALSE, payload |-> <<>>]
compute_game_over_payload(g) ==
    IF \E i \in 1..Len(g) : g[i] = 0
    THEN [is_full |-> FALSE, payload |-> <<>>]
    ELSE [is_full |-> TRUE,
          payload |-> <<Winner(g), Cardinality(Owners(g))>>
                          \o ScorePairs(g, Owners(g))]

\* line 193-197: while self.running; payload = self.build_snapshot_payload()
\* lines 193-197 with `while True` in place of `while self.running`
BroadcastBuild_IgnoresRunning ==
    /\ b_pc = "top"
    /\ ~main_done
    /\ snapshot_id < MaxTicks
    /\ b_payload' = build_snapshot_payload(grid)
    /\ b_pc' = "lock"
    /\ UNCHANGED <<b_combined, b_clients, b_grid_state, b_packet, b_sent,
                   b_failed, b_go_payload, go_sent, built>>
    /\ UNCHANGED <<serverVars, recvVars, netVars, clientVars, clientRxVars>>
    /\ unlocked_access' = unlocked_access \cup {"grid"}
    /\ UNCHANGED <<locked_sends, tallyVars>>
BroadcastBuild ==
    /\ b_pc = "top"
    /\ ~main_done
    /\ IF running
       THEN /\ snapshot_id < MaxTicks
            /\ b_payload' = build_snapshot_payload(grid)
            /\ b_pc' = "lock"
       ELSE /\ b_pc' = "done"
            /\ UNCHANGED b_payload
    /\ UNCHANGED <<b_combined, b_clients, b_grid_state, b_packet, b_sent,
                   b_failed, b_go_payload, go_sent, built>>
    /\ UNCHANGED <<serverVars, recvVars, netVars, clientVars, clientRxVars>>
    /\ unlocked_access' = IF running THEN unlocked_access \cup {"grid"}
                          ELSE unlocked_access
    /\ UNCHANGED <<locked_sends, tallyVars>>

\* lines 199-208: with self.lock
BroadcastLocked ==
    /\ b_pc = "lock"
    /\ ~main_done
    /\ snapshot_history' = AppendLeft(snapshot_history, b_payload)
    /\ b_combined' = Join(snapshot_history')
    /\ b_clients' = clients
    /\ b_grid_state' = grid
    /\ built' = Append(built, b_payload)
    /\ b_pc' = "send"
    /\ UNCHANGED <<clients, running, snapshot_id, seq_num, grid, snap_log,
                   event_count, event_last, event_accepted, pos_last>>
    /\ UNCHANGED <<b_payload, b_packet, b_sent, b_failed, b_go_payload,
                   go_sent>>
    /\ UNCHANGED <<recvVars, netVars, clientVars, clientRxVars>>
    /\ UNCHANGED <<auditVars, tallyVars>>

\* what the network holds for "c1" after one more packet is handed to it: the
\* oldest undelivered packet is lost when more than NetCap are in flight
NetCap == 2
NetPut(net, packet) ==
    IF Len(net) < NetCap THEN Append(net, packet)
    ELSE Append(Tail(net), packet)

\* a counter kept in a two-bit field
IncrementWrapping(counter) == (counter + 1) % 4
\* lines 252-254: self.snapshot_id += 1; self.seq_num += 1
Increment(counter) == counter + 1
\* lines 210-231: the SNAPSHOT packet of the tick
SnapshotPacket ==
    Encode(VERSION_server, MSG_SNAPSHOT, snapshot_id, seq_num, now_ms, b_combined)
\* lines 233-238: the first sendto that raises ends the send loop
Delivered_AbortOnFailure(captured, failed) ==
    IF failed = {} THEN captured ELSE {}
\* lines 233-238: each sendto has its own try/except, so the endpoints that
\* are sent the packet are the captured ones whose sendto did not raise
\* lines 233-238 iterating over self.clients in place of the captured list
Delivered_ToCurrentSet(captured, failed) == clients \ failed
Delivered(captured, failed) == captured \ failed
\* lines 210-254: build the packet, send it to each captured endpoint (a
\* sendto may raise, which is caught per endpoint: `failures` holds the sets
\* of endpoints whose sendto the environment may make raise), write both
\* logs, advance the counters
BroadcastSendTo(failures) ==
    /\ b_pc = "send"
    /\ ~main_done
    /\ b_packet' = SnapshotPacket
    /\ \E failed \in failures :
          /\ failed \subseteq b_clients
          /\ b_failed' = failed
          /\ b_sent' = Delivered(b_clients, failed)
          /\ IF "c1" \in b_sent'
             THEN /\ net_c1' = NetPut(net_c1, SnapshotPacket)
                  /\ c1_missed' = IF Len(net_c1) < NetCap THEN c1_missed
                                  ELSE c1_missed + 1
             ELSE UNCHANGED <<net_c1, c1_missed>>
    /\ snap_log' = Append(snap_log, <<snapshot_id, seq_num, Len(b_combined)>>)
    /\ pos_last' = <<snapshot_id, b_grid_state>>
    /\ snapshot_id' = Increment(snapshot_id)
    /\ seq_num' = Increment(seq_num)
    /\ b_pc' = "check"
    /\ UNCHANGED <<clients, running, grid, snapshot_history, event_count,
                   event_last, event_accepted>>
    /\ UNCHANGED <<b_payload, b_combined, b_clients, b_grid_state, b_go_payload,
                   go_sent, built>>
    /\ UNCHANGED <<recvVars, to_server, c1_gap, c1_last, ev_done_at, clientVars,
                   clientRxVars>>
    /\ UNCHANGED <<auditVars, tallyVars>>

\* lines 256-272 and 288-292: compute_game_over_payload; not full: sleep and
\* go round again
BroadcastCheck ==
    /\ b_pc = "check"
    /\ ~main_done
    /\ LET r == compute_game_over_payload(grid)
       IN  IF r.is_full
           THEN /\ b_go_payload' = r.payload
                /\ b_pc' = "go_lock"
           ELSE /\ b_pc' = "top"
                /\ UNCHANGED b_go_payload
    /\ UNCHANGED <<b_payload, b_combined, b_clients, b_grid_state, b_packet,
                   b_sent, b_failed, go_sent, built>>
    /\ UNCHANGED <<serverVars, recvVars, netVars, clientVars, clientRxVars>>
    /\ unlocked_access' = unlocked_access \cup {"grid"}
    /\ UNCHANGED <<locked_sends, tallyVars>>

\* lines 274-275: with self.lock: clients = list(self.clients)
BroadcastGoLocked ==
    /\ b_pc = "go_lock"
    /\ ~main_done
    /\ b_clients' = clients
    /\ b_pc' = "go_send"
    /\ UNCHANGED <<b_payload, b_combined, b_grid_state, b_packet, b_sent,
                   b_failed, b_go_payload, go_sent, built>>
    /\ UNCHANGED <<serverVars, recvVars, netVars, clientVars, clientRxVars>>
    /\ UNCHANGED <<auditVars, tallyVars>>

\* lines 259-272: the GAME_OVER packet carries the locals snapshot_id and
\* seq_num of lines 214-215, the values the tick's SNAPSHOT packet carried
\* and its log row holds
GameOverPacket ==
    LET row == snap_log[Len(snap_log)]
    IN  Encode(VERSION_server, MSG_GAME_OVER, row[1], row[2], now_ms,
               b_go_payload)
\* lines 277-286: per endpoint, two sendto calls inside one try: both succeed,
\* the second raises, or the first raises and the second is never made
\* (`outcomes` holds the numbers of datagrams the environment lets an
\* endpoint be sent); then self.running = False
RECURSIVE NetPutN(_, _, _)
NetPutN(net, packet, n) ==
    IF n = 0 THEN net ELSE NetPutN(NetPut(net, packet), packet, n - 1)
BroadcastGoSendTo(outcomes) ==
    /\ b_pc = "go_send"
    /\ ~main_done
    /\ b_packet' = GameOverPacket
    /\ \E n \in [b_clients -> outcomes] :
          /\ go_sent' = n
          /\ IF "c1" \in b_clients
             THEN /\ net_c1' = NetPutN(net_c1, GameOverPacket, n["c1"])
                  /\ c1_missed' = c1_missed + Len(net_c1) + n["c1"] - Len(net_c1')
             ELSE UNCHANGED <<net_c1, c1_missed>>
    /\ running' = FALSE
    /\ b_pc' = "top"
    /\ UNCHANGED <<clients, snapshot_id, seq_num, grid, snapshot_history,
                   snap_log, event_count, event_last, event_accepted, pos_last>>
    /\ UNCHANGED <<b_payload, b_combined, b_clients, b_grid_state, b_sent,
                   b_failed, b_go_payload, built>>
    /\ UNCHANGED <<recvVars, to_server, c1_gap, c1_last, ev_done_at, clientVars,
                   clientRxVars>>
    /\ UNCHANGED <<auditVars, tallyVars>>

\* start(), lines 89-98: the main loop sees running = False, closes the logs
\* and returns; the process exits and its daemon threads end with it
MainFinish ==
    /\ ~running
    /\ ~main_done
    /\ main_done' = TRUE
    /\ recv_alive' = FALSE
    /\ UNCHANGED rx_invalid
    /\ UNCHANGED <<serverVars, bcastVars, netVars, clientVars, clientRxVars>>
    /\ UNCHANGED <<auditVars, tallyVars>>

(***************************************************************************)
(* Datagrams that reach the authority from the network.                    *)
(***************************************************************************)
\* struct.pack("!B B H Q", player_id, 0, cell_id, client_ts)
EventPayload(player_id, cell_id) ==
    <<player_id, 0>> \o PackU16(cell_id) \o PackU64(now_ms)
\* struct.pack("!B", player_id)
InitPayload(player_id) == <<player_id>>

PeerInit == Encode(VERSION_server, MSG_INIT, 0, 0, now_ms, InitPayload(1))
PeerEvent(player_id, cell_id) ==
    Encode(VERSION_server, MSG_EVENT, 0, 0, now_ms,
           EventPayload(player_id, cell_id))
\* every cell of the grid, and the first cell id past it
EventCells == 0..NumCells
PeerEvents == {PeerEvent(p, c) : p \in PlayerBytes, c \in EventCells}
\* an EVENT whose payload is shorter than 12 bytes, and a message type the
\* authority has no branch for
PeerShortEvent == Encode(VERSION_server, MSG_EVENT, 0, 0, now_ms, <<1, 0, 0, 0>>)
PeerAck == Encode(VERSION_server, MSG_ACK, 0, 0, now_ms, <<>>)
\* invalid datagrams: cut below the header size, a wrong tag byte, the other
\* version, a payload byte changed after the checksum was computed
Truncated(data) == SubSeq(data, 1, HEADER_SIZE - 1)
WrongTag(data) == [data EXCEPT ![4] = 79]
Corrupted(data) == [data EXCEPT ![HEADER_SIZE + 1] = (@ + 1) % 256]
InvalidAtServer ==
    {Truncated(PeerInit), WrongTag(PeerInit),
     Encode(VERSION_client, MSG_EVENT, 0, 0, now_ms, EventPayload(1, 0)),
     Corrupted(PeerEvent(1, 0))}
\* the datagrams that pass validation at the authority
ServerInputs == {PeerInit, PeerShortEvent, PeerAck} \cup PeerEvents

\* lines 104-127 applied to each datagram of ServerInputs (the datagrams are
\* fixed, so each is decoded once)
ServerInputsDecoded == {ServerDecode(data) : data \in ServerInputs}

\* recv_loop takes a well-formed datagram that a peer sent from address addr
ServerRecv ==
    /\ \E m \in ServerInputsDecoded, addr \in Peers : ServerHandle(m, addr)
    /\ UNCHANGED rx_invalid
    /\ UNCHANGED <<netVars, clientVars, clientRxVars>>

(***************************************************************************)
(* The authority on its own: its receive loop fed with well-formed         *)
(* datagrams by two peers, its broadcast loop (no sendto raises), its main *)
(* thread.                                                                 *)
(***************************************************************************)
\* every sendto succeeds
BroadcastSend == BroadcastSendTo({{}})
BroadcastGoSend == BroadcastGoSendTo({2})

Next ==
    \/ ServerRecv
    \/ BroadcastBuild
    \/ BroadcastLocked
    \/ BroadcastSend
    \/ BroadcastCheck
    \/ BroadcastGoLocked
    \/ BroadcastGoSend
    \/ MainFinish

Spec == Init /\ [][Next]_vars

(***************************************************************************)
(* GameClient.                                                             *)
(***************************************************************************)
\* send_init, lines 121-133, and send_event_acquire, lines 140-153
ClientInitPacket(player_id) ==
    Encode(VERSION_client, MSG_INIT, 0, 0, now_ms, InitPayload(player_id))
ClientEventPacket(player_id, cell_id) ==
    Encode(VERSION_client, MSG_EVENT, 0, 0, now_ms,
           EventPayload(player_id, cell_id))

\* __init__, lines 114-115: self.send_init()
ClientStart ==
    /\ ~c_started
    /\ c_started' = TRUE
    /\ to_server' = Append(to_server, ClientInitPacket(c_player_id))
    /\ UNCHANGED <<c_player_id, c_grid, c_game_over, c_winner_id,
                   c_final_scores, c_metrics, c_redundancy_used, c_clicks>>
    /\ UNCHANGED <<net_c1, c1_missed, c1_gap, c1_last, ev_done_at>>
    /\ UNCHANGED <<serverVars, bcastVars, recvVars, clientRxVars>>
    /\ UNCHANGED <<auditVars, tallyVars>>

\* run_pygame, lines 360-370, a left click on cell `cell_id`, and
\* send_event_acquire: the datagram goes out twice, and only when the cell
\* is shown unclaimed and the game is not over
\* lines 360-370 with the clicked cell painted in the local grid at once
ClientClick_Optimistic(cell_id) ==
    /\ c_started
    /\ c_clicks < MaxClicks
    /\ c_clicks' = c_clicks + 1
    /\ IF c_grid[cell_id + 1] = 0 /\ ~c_game_over
       THEN LET packet == ClientEventPacket(c_player_id, cell_id)
            IN  /\ to_server' = to_server \o <<packet, packet>>
                /\ locked_sends' = locked_sends \cup {MSG_EVENT}
                /\ c_grid' = [c_grid EXCEPT ![cell_id + 1] = c_player_id]
       ELSE UNCHANGED <<to_server, locked_sends, c_grid>>
    /\ UNCHANGED <<c_started, c_player_id, c_game_over, c_winner_id,
                   c_final_scores, c_metrics, c_redundancy_used>>
    /\ UNCHANGED <<net_c1, c1_missed, c1_gap, c1_last, ev_done_at>>
    /\ UNCHANGED <<serverVars, bcastVars, recvVars, clientRxVars>>
    /\ UNCHANGED <<unlocked_access, tallyVars>>
\* lines 360-370 with a single sendto in send_event_acquire
ClientClick_SendsOnce(cell_id) ==
    /\ c_started
    /\ c_clicks < MaxClicks
    /\ c_clicks' = c_clicks + 1
    /\ IF c_grid[cell_id + 1] = 0 /\ ~c_game_over
       THEN LET packet == ClientEventPacket(c_player_id, cell_id)
            IN  /\ to_server' = to_server \o <<packet>>
                /\ locked_sends' = locked_sends \cup {MSG_EVENT}
       ELSE UNCHANGED <<to_server, locked_sends>>
    /\ UNCHANGED <<c_started, c_player_id, c_grid, c_game_over, c_winner_id,
                   c_final_scores, c_metrics, c_redundancy_used>>
    /\ UNCHANGED <<net_c1, c1_missed, c1_gap, c1_last, ev_done_at>>
    /\ UNCHANGED <<serverVars, bcastVars, recvVars, clientRxVars>>
    /\ UNCHANGED <<unlocked_access, tallyVars>>
ClientClick(cell_id) ==
    /\ c_started
    /\ c_clicks < MaxClicks
    /\ c_clicks' = c_clicks + 1
    /\ IF c_grid[cell_id + 1] = 0 /\ ~c_game_over
       THEN LET packet == ClientEventPacket(c_player_id, cell_id)
            IN  /\ to_server' = to_server \o <<packet, packet>>
                /\ locked_sends' = locked_sends \cup {MSG_EVENT}
       ELSE UNCHANGED <<to_server, locked_sends>>
    /\ UNCHANGED <<c_started, c_player_id, c_grid, c_game_over, c_winner_id,
                   c_final_scores, c_metrics, c_redundancy_used>>
    /\ UNCHANGED <<net_c1, c1_missed, c1_gap, c1_last, ev_done_at>>
    /\ UNCHANGED <<serverVars, bcastVars, recvVars, clientRxVars>>
    /\ UNCHANGED <<unlocked_access, tallyVars>>

\* handle_snapshot with a strict duplicate test (seq_num < last_seq_num)
SeqAccount_StrictDuplicate(metrics, seq_no) ==
    LET last == metrics.last_seq_num
    IN  [total_packets_received |-> metrics.total_packets_received + 1,
         duplicate_packets |-> metrics.duplicate_packets
                                   + (IF seq_no < last THEN 1 ELSE 0),
         lost_sequences |-> metrics.lost_sequences
                                + (IF last # -1 /\ seq_no > last + 1
                                   THEN seq_no - last - 1 ELSE 0),
         last_seq_num |-> seq_no]
\* handle_snapshot, lines 221-231: the packet, duplicate and gap counters
\* and the cursor
\* handle_snapshot without the last_seq_num != -1 test of line 228
SeqAccount_NoFirstPacketGuard(metrics, seq_no) ==
    LET last == metrics.last_seq_num
    IN  [total_packets_received |-> metrics.total_packets_received + 1,
         duplicate_packets |-> metrics.duplicate_packets
                                   + (IF seq_no <= last THEN 1 ELSE 0),
         lost_sequences |-> metrics.lost_sequences
                                + (IF seq_no > last + 1
                                   THEN seq_no - last - 1 ELSE 0),
         last_seq_num |-> seq_no]
SeqAccount(metrics, seq_no) ==
    LET last == metrics.last_seq_num
    IN  [total_packets_received |-> metrics.total_packets_received + 1,
         duplicate_packets |-> metrics.duplicate_packets
                                   + (IF seq_no <= last THEN 1 ELSE 0),
         lost_sequences |-> metrics.lost_sequences
                                + (IF last # -1 /\ seq_no > last + 1
                                   THEN seq_no - last - 1 ELSE 0),
         last_seq_num |-> seq_no]

\* handle_snapshot, lines 234-257: the parse loop from offset ptr (0-based)
RECURSIVE ParseLoop(_, _, _, _, _)
ParseLoop(payload, ptr, g, updated, redundancy) ==
    LET out == [grid |-> g, updated |-> updated, redundancy_used |-> redundancy]
    IN  IF ~(ptr + 1 <= Len(payload)) THEN out
        ELSE IF payload[ptr + 1] # GRID_N THEN out
        ELSE IF (ptr + 1) + NumCells > Len(payload) THEN out
        ELSE LET chunk == SubSeq(payload, ptr + 2, ptr + 1 + NumCells)
                 next == ptr + 1 + NumCells
             IN  IF ~updated
                 THEN ParseLoop(payload, next, chunk, TRUE, redundancy)
                 ELSE ParseLoop(payload, next, g, TRUE, redundancy + 1)
\* lines 233-257 counting the applied chunk as a redundant one too
ParseSnapshot_CountsApplied(payload, g) ==
    LET r == ParseLoop(payload, 0, g, FALSE, 0)
    IN  [r EXCEPT !.redundancy_used = IF r.updated THEN @ + 1 ELSE @]
ParseSnapshot(payload, g) == ParseLoop(payload, 0, g, FALSE, 0)

\* handle_game_over, lines 275-281: the pairs that lie inside the payload,
\* a later pair for the same pid replacing an earlier one (the offsets grow
\* with i, so the first pair that does not fit ends the scan)
RECURSIVE ParseScores(_, _, _, _)
ParseScores(payload, i, num_players, scores) ==
    LET idx == 2 + i * 2
    IN  IF i >= num_players \/ idx + 2 > Len(payload) THEN scores
        ELSE LET pid == payload[idx + 1]
                 score == payload[idx + 2]
             IN  ParseScores(payload, i + 1, num_players,
                             [p \in (DOMAIN scores) \cup {pid} |->
                                 IF p = pid THEN score ELSE scores[p]])

\* recv_loop, lines 162-199: one iteration for a datagram that lines 165-187
\* decoded to `m`
ClientHandle(m) ==
    /\ c_rx_count < MaxClientRecv
    /\ c_rx_count' = c_rx_count + 1
    /\ IF m.ok /\ m.msg_type = MSG_SNAPSHOT
       THEN LET r == ParseSnapshot(m.payload, c_grid)
            IN  /\ c_metrics' = SeqAccount(c_metrics, m.seq_num)
                /\ c_seq_seen' = Append(c_seq_seen, m.seq_num)
                /\ c_grid' = r.grid
                /\ c_redundancy_used' = r.redundancy_used
                /\ UNCHANGED <<c_game_over, c_winner_id, c_final_scores>>
       ELSE IF m.ok /\ m.msg_type = MSG_GAME_OVER /\ Len(m.payload) >= 2
       THEN /\ c_game_over' = TRUE
            /\ c_winner_id' = m.payload[1]
            /\ c_final_scores' = ParseScores(m.payload, 0, m.payload[2], <<>>)
            /\ UNCHANGED <<c_grid, c_metrics, c_redundancy_used, c_seq_seen>>
       ELSE UNCHANGED <<c_grid, c_metrics, c_redundancy_used, c_seq_seen,
                        c_game_over, c_winner_id, c_final_scores>>
    /\ UNCHANGED <<c_started, c_player_id, c_clicks>>
    /\ UNCHANGED <<serverVars, bcastVars, recvVars, to_server, ev_done_at>>
    /\ UNCHANGED <<auditVars, tallyVars>>

(***************************************************************************)
(* Datagrams that reach the client from the network.                       *)
(***************************************************************************)
\* a grid blob whose cells all hold `owner`
Blob(owner) == build_snapshot_payload([i \in 1..NumCells |-> owner])
\* SNAPSHOT payloads: one blob of an owned grid; one blob of the unclaimed
\* grid; K blobs, newest first; a blob for a grid of another size
SnapPayloads ==
    {Blob(1), Blob(0), Blob(2) \o Blob(1) \o Blob(0),
     <<GRID_N + 1>> \o EmptyGrid}
SnapshotFor(version, seq_no, payload) ==
    Encode(version, MSG_SNAPSHOT, seq_no, seq_no, now_ms, payload)
\* GAME_OVER payloads: winner 1 with one score pair; one byte only
GameOverFor(version, payload) ==
    Encode(version, MSG_GAME_OVER, 0, 0, now_ms, payload)
\* the datagrams that pass validation at the client
ClientValidInputs ==
    {SnapshotFor(VERSION_client, s, p) : s \in 0..MaxSeq, p \in SnapPayloads}
        \cup {GameOverFor(VERSION_client, <<1, 1, 1, NumCells>>),
              GameOverFor(VERSION_client, <<1>>)}
\* invalid datagrams: cut below the header size, a wrong tag byte, the other
\* version, a payload byte changed after the checksum was computed
InvalidAtClient ==
    {Truncated(SnapshotFor(VERSION_client, 0, Blob(1))),
     WrongTag(SnapshotFor(VERSION_client, 0, Blob(1))),
     SnapshotFor(VERSION_server, 0, Blob(1)),
     Corrupted(GameOverFor(VERSION_client, <<1, 1, 1, NumCells>>))}
\* lines 165-187 applied to each datagram, with whether it is an invalid one
ClientInputs ==
    {<<ClientDecode(data), FALSE>> : data \in ClientValidInputs}
        \cup {<<ClientDecode(data), TRUE>> : data \in InvalidAtClient}

\* recv_loop takes a datagram that some sender addressed to the client
ClientRecv ==
    /\ \E in \in ClientInputs : ClientHandle(in[1]) /\ c_rx_invalid' = in[2]
    /\ UNCHANGED <<net_c1, c1_missed, c1_gap, c1_last>>

(***************************************************************************)
(* The client on its own: its receive loop fed with datagrams, valid and   *)
(* invalid, its registration and its clicks.                               *)
(***************************************************************************)
ClientClicks == \E cell_id \in 0..(NumCells - 1) : ClientClick(cell_id)

NextClient ==
    \/ ClientStart
    \/ ClientClicks
    \/ ClientRecv

SpecClient == Init /\ [][NextClient]_vars

(***************************************************************************)
(* The authority and the client together, joined by the network: the       *)
(* client's datagrams travel in order and without loss to the authority,   *)
(* the authority's datagrams for "c1" may be lost on the way, peers inject *)
(* datagrams at both ends.  UDP carries no authentication, so a peer can   *)
(* give a datagram the client's address as its source.                     *)
(***************************************************************************)
\* consecutive datagrams the network loses on the way to "c1"
MaxLost == 2
\* datagrams the client's receive loop consumes while the authority runs
MaxSystemRecv == 2
\* valid EVENT datagrams peers send while the client runs
MaxPeerEvents == 1

\* datagrams peers send to the authority, each with its source address and
\* whether it is an invalid one: an INIT of the authority's version bearing
\* the client's address, an EVENT of player 2 for cell 0, and the invalid
\* datagrams
SystemServerInputs ==
    {<<ServerDecode(PeerInit), "c1", FALSE>>,
     <<ServerDecode(PeerEvent(2, 0)), "p2", FALSE>>}
        \cup {<<ServerDecode(data), "p2", TRUE>> : data \in InvalidAtServer}

\* recv_loop of the authority takes a datagram of a peer
ServerRecvPeer ==
    /\ \E in \in SystemServerInputs :
          /\ (~in[3] /\ in[1].msg_type = MSG_EVENT)
                 => event_count < MaxPeerEvents
          /\ ServerHandle(in[1], in[2])
          /\ rx_invalid' = IF in[3] THEN 1 - rx_invalid ELSE rx_invalid
    /\ UNCHANGED <<netVars, clientVars, clientRxVars>>

\* recv_loop of the authority takes the client's oldest datagram in flight
ServerRecvClient ==
    /\ to_server # <<>>
    /\ ServerHandle(ServerDecode(Head(to_server)), "c1")
    /\ rx_invalid' = IF Head(to_server)[5] # VERSION_server
                     THEN 1 - rx_invalid ELSE rx_invalid
    /\ to_server' = Tail(to_server)
    /\ ev_done_at' =
           IF ev_done_at = -1 /\ Head(to_server)[6] = MSG_EVENT
           THEN (IF b_pc \in {"top", "check"} THEN snapshot_id
                 ELSE snapshot_id + 1)
           ELSE ev_done_at
    /\ UNCHANGED <<net_c1, c1_missed, c1_gap, c1_last>>
    /\ UNCHANGED <<clientVars, clientRxVars>>

\* recv_loop of the client takes the authority's oldest datagram in flight
ClientRecvNet ==
    /\ net_c1 # <<>>
    /\ c_rx_count < MaxSystemRecv
    /\ LET m == ClientDecode(Head(net_c1))
       IN  ClientHandle(m) /\ c1_last' = m
    /\ c_rx_invalid' = (Head(net_c1)[5] # VERSION_client)
    /\ net_c1' = Tail(net_c1)
    /\ c1_gap' = c1_missed
    /\ c1_missed' = 0

\* the network loses the authority's oldest datagram in flight
NetLose ==
    /\ net_c1 # <<>>
    /\ c1_missed < MaxLost
    /\ net_c1' = Tail(net_c1)
    /\ c1_missed' = c1_missed + 1
    /\ UNCHANGED <<to_server, c1_gap, c1_last, ev_done_at>>
    /\ UNCHANGED <<serverVars, bcastVars, recvVars, clientVars, clientRxVars>>
    /\ UNCHANGED <<auditVars, tallyVars>>

\* datagrams peers send to the client: one valid SNAPSHOT, and the invalid
\* datagrams
SystemClientInputs ==
    {<<ClientDecode(SnapshotFor(VERSION_client, 1, Blob(2))), FALSE>>}
        \cup {<<ClientDecode(data), TRUE>> : data \in InvalidAtClient}

\* recv_loop of the client takes a datagram of a peer
ClientRecvPeer ==
    /\ c_rx_count < MaxSystemRecv
    /\ \E in \in SystemClientInputs :
          ClientHandle(in[1]) /\ c_rx_invalid' = in[2]
    /\ c1_last' = <<>>
    /\ UNCHANGED <<net_c1, c1_missed, c1_gap>>

NextSystem ==
    \/ ClientStart
    \/ ClientClicks
    \/ ServerRecvPeer
    \/ ServerRecvClient
    \/ BroadcastBuild
    \/ BroadcastLocked
    \/ BroadcastSend
    \/ BroadcastCheck
    \/ BroadcastGoLocked
    \/ BroadcastGoSend
    \/ MainFinish
    \/ ClientRecvNet
    \/ NetLose
    \/ ClientRecvPeer

SpecSystem == Init /\ [][NextSystem]_vars

(***************************************************************************)
(* Properties of the authority (specification Spec).                       *)
(***************************************************************************)
Cells == 0..(NumCells - 1)

\* C1: of the validated EVENT requests naming one in-range cell, whatever
\* player ids they carry, the one processed first is accepted and its player
\* id becomes the owner of the cell, and every later one is rejected: a cell
\* never has more than one accepted request, the owner is the requester of
\* that request, and a cell that was requested has an accepted request.
C1_FirstRequestWins ==
    /\ \A c \in Cells :
          /\ Len(event_accepted[c]) <= 1
          /\ Len(event_accepted[c]) = 1 => grid[c + 1] = event_accepted[c][1]
    /\ (event_last # <<>> /\ event_last.cell_id \in Cells)
          => event_accepted[event_last.cell_id] # <<>>

\* C2: once a cell has a non-zero owner, no step of the authority (INIT,
\* EVENT, tick, game over) changes that owner again.
C2_WriteOnce ==
    [][\A i \in 1..NumCells : grid[i] # 0 => grid'[i] = grid[i]]_vars

\* C2 witness: a claimed cell was requested again by another player, the
\* request was rejected, a client is registered and a tick has been sent
C2_Witness ==
    /\ event_last # <<>>
    /\ event_last.cell_id \in Cells
    /\ event_last.accepted = 0
    /\ grid[event_last.cell_id + 1] # 0
    /\ grid[event_last.cell_id + 1] # event_last.player_id
    /\ clients # {}
    /\ snapshot_id >= 1

\* C3: every cell of the authoritative grid holds 0 (unclaimed) or a player
\* id in 1..8.
C3_GridValuesInRange == \A i \in 1..NumCells : grid[i] \in 0..8

\* the number of bytes of one grid blob: the size byte and the cells
BlobSize == 1 + NumCells
BlobAt(payload, i) == SubSeq(payload, (i - 1) * BlobSize + 1, i * BlobSize)

\* C4: the payload of the t-th tick is min(t, K) grid blobs, newest first: the
\* first blob is the snapshot built on this tick, the i-th next one is the
\* snapshot built i ticks before; the history never holds more than K blobs.
C4_RedundantBlobs ==
    /\ Len(snapshot_history) <= K
    /\ b_pc = "send" =>
          LET t == snapshot_id + 1
              n == Min(t, K)
          IN  /\ Len(built) = t
              /\ Len(b_combined) = n * BlobSize
              /\ \A i \in 1..n : BlobAt(b_combined, i) = built[t - i + 1]

\* C4 witness: a tick past the K-th whose payload holds blobs that differ
C4_Witness ==
    /\ b_pc = "send"
    /\ snapshot_id + 1 > K
    /\ Len(b_combined) = K * BlobSize
    /\ BlobAt(b_combined, 1) # BlobAt(b_combined, 2)

\* C9: snapshot_id and seq_num both start at 0 and both go up by exactly one
\* per tick: the i-th tick logs and stamps on its packet the pair (i-1, i-1),
\* and the counters equal the number of ticks sent so far.
C9_CountersAdvanceByOne ==
    /\ snapshot_id = Len(snap_log)
    /\ seq_num = Len(snap_log)
    /\ \A i \in 1..Len(snap_log) :
          snap_log[i][1] = i - 1 /\ snap_log[i][2] = i - 1
    /\ b_pc = "check" =>
          LET h == HeaderUnpack(SubSeq(b_packet, 1, HEADER_SIZE))
          IN  /\ h.msg_type = MSG_SNAPSHOT
              /\ h.snapshot_id = Len(snap_log) - 1
              /\ h.seq_num = Len(snap_log) - 1

\* C9 witness: the last tick the bound allows has been sent
C9_Witness ==
    /\ b_pc = "check"
    /\ Len(snap_log) = MaxTicks
    /\ snapshot_id = MaxTicks

(***************************************************************************)
(* Properties of the client's sequence accounting (specification           *)
(* SpecClient).                                                            *)
(***************************************************************************)
\* the accounting rule applied to one more sequence number; with
\* first_exempt the first packet of a session adds nothing to the lost total
C8_Step(acc, seq_no, first_exempt) ==
    [dup |-> acc.dup + (IF seq_no <= acc.cursor THEN 1 ELSE 0),
     lost |-> acc.lost + (IF seq_no > acc.cursor + 1
                             /\ (~first_exempt \/ acc.n > 0)
                          THEN seq_no - acc.cursor - 1 ELSE 0),
     cursor |-> seq_no,
     n |-> acc.n + 1]
RECURSIVE C8_Fold(_, _, _)
C8_Fold(seqs, k, first_exempt) ==
    IF k = 0 THEN [dup |-> 0, lost |-> 0, cursor |-> -1, n |-> 0]
    ELSE C8_Step(C8_Fold(seqs, k - 1, first_exempt), seqs[k], first_exempt)
C8_Agrees(first_exempt) ==
    LET acc == C8_Fold(c_seq_seen, Len(c_seq_seen), first_exempt)
    IN  /\ c_metrics.duplicate_packets = acc.dup
        /\ c_metrics.lost_sequences = acc.lost
        /\ c_metrics.last_seq_num = acc.cursor
C8_Example ==
    c_seq_seen = <<0, 1, 1, 3, 5>>
        => c_metrics.duplicate_packets = 1 /\ c_metrics.lost_sequences = 2

\* C8 as stated: for each validated SNAPSHOT packet, a sequence number <= the
\* cursor adds one to the duplicate count, a sequence number > cursor + 1
\* adds (new - cursor - 1) to the lost total, the cursor becomes the new
\* number; [0,1,1,3,5] from the initial state gives 1 duplicate and 2 lost.
C8_SequenceAccounting == C8_Agrees(FALSE) /\ C8_Example

\* C8 amended: the same rule, except that the first validated SNAPSHOT
\* packet of a session (cursor still -1) adds nothing to the lost total
\* whatever its sequence number; [0,1,1,3,5] from the initial state gives 1
\* duplicate and 2 lost.
C8_SequenceAccountingAfterFirst == C8_Agrees(TRUE) /\ C8_Example

\* C8 witness: the client has handled SNAPSHOT packets numbered 0,1,1,3,5
C8_Witness ==
    /\ c_seq_seen = <<0, 1, 1, 3, 5>>
    /\ c_metrics.total_packets_received = 5
    /\ c_metrics.last_seq_num = 5

(***************************************************************************)
(* Properties of the two ends together (specification SpecSystem).         *)
(***************************************************************************)
\* C5: the client has sent INIT and then an EVENT for cell 0, which nobody
\* else has claimed; the authority has taken both and has since broadcast a
\* tick built after the EVENT; nothing was lost and nothing is in flight.
\* Then the client's grid shows its own player id in cell 0, and it has
\* counted the packets of the ticks broadcast since it registered (at least
\* that one).
C5_EndToEnd ==
    (/\ c_started
     /\ ev_done_at >= 0
     /\ to_server = <<>>
     /\ snapshot_id > ev_done_at
     /\ net_c1 = <<>>
     /\ c1_missed = 0
     /\ c1_gap = 0
     /\ c_rx_count <= 1
     /\ \A i \in 1..Len(event_accepted[0]) :
           event_accepted[0][i] = c_player_id)
        => /\ c_grid[1] = c_player_id
           /\ c_metrics.total_packets_received >= 1

\* a decoder accepted `data` and returned the type and payload it carries
Recovered(m, data) ==
    /\ m.ok
    /\ m.msg_type = data[6]
    /\ m.payload = SubSeq(data, HEADER_SIZE + 1, Len(data))
    /\ m.payload_len = Len(m.payload)

\* C6: every datagram one end has encoded and that is in flight, unmodified,
\* to the other end passes that end's validation, which returns the header
\* fields and the payload that were encoded.
C6_CrossDecode ==
    /\ \A i \in 1..Len(to_server) :
          Recovered(ServerDecode(to_server[i]), to_server[i])
    /\ \A i \in 1..Len(net_c1) :
          Recovered(ClientDecode(net_c1[i]), net_c1[i])

C10_InvalidDatagramsChangeNothing ==
    [][/\ rx_invalid' # rx_invalid =>
             /\ UNCHANGED <<clients, grid, snapshot_id, seq_num,
                            snapshot_history, snap_log, event_count,
                            event_last, event_accepted, pos_last, running>>
             /\ running => recv_alive'
       /\ (c_rx_count' # c_rx_count /\ c_rx_invalid') =>
             UNCHANGED <<c_grid, c_game_over, c_winner_id, c_final_scores,
                         c_metrics, c_redundancy_used, c_seq_seen, c_started,
                         c_clicks, to_server>>]_vars

\* C10 witness: each end has taken an invalid datagram while it had state to
\* lose: a registered client, a claimed cell and a tick sent at the
\* authority, a SNAPSHOT packet counted at the client
C10_Witness ==
    /\ rx_invalid = 1
    /\ clients # {}
    /\ grid[1] # 0
    /\ snapshot_id >= 1
    /\ c_rx_invalid
    /\ c_rx_count = 2
    /\ c_metrics.total_packets_received = 1

(***************************************************************************)
(* compute_game_over_payload on its own: it is handed a grid of TallyCells *)
(* cells whose owners are 0 (unclaimed) or one of TallyPlayers players.    *)
(***************************************************************************)
TallyCells == 4
TallyPlayers == 3
TallyGrids == [1..TallyCells -> 0..TallyPlayers]

InitTally ==
    /\ InitProgram
    /\ t_grid \in TallyGrids
    /\ t_out = <<>>
    /\ p_in = <<>>
    /\ p_out = <<>>
    /\ t_order = <<>>

\* line 257: is_full, payload = self.compute_game_over_payload()
TallyCompute ==
    /\ t_out = <<>>
    /\ t_out' = <<compute_game_over_payload(t_grid)>>
    /\ UNCHANGED <<t_grid, p_in, p_out, t_order>>
    /\ UNCHANGED <<serverVars, bcastVars, recvVars, netVars, clientVars,
                   clientRxVars, auditVars>>

NextTally == TallyCompute

SpecTally == InitTally /\ [][NextTally]_vars

\* the number of cells of grid g that player p owns
CellCount(g, p) == Cardinality({i \in DOMAIN g : g[i] = p})

\* C11: whenever a GAME_OVER payload is built, the winner id in its first
\* byte is a player whose cell count is the largest of all players' counts,
\* and a player whose count is strictly larger than every other player's is
\* the winner.
C11_WinnerHasMaxCount ==
    (t_out # <<>> /\ t_out[1].is_full) =>
        LET w == t_out[1].payload[1]
        IN  /\ w \in 1..TallyPlayers
            /\ \A p \in 1..TallyPlayers :
                   CellCount(t_grid, p) <= CellCount(t_grid, w)
            /\ \A p \in 1..TallyPlayers :
                   (\A q \in (1..TallyPlayers) \ {p} :
                        CellCount(t_grid, q) < CellCount(t_grid, p))
                       => w = p

\* C11 witness: a payload was built for a full grid that three players share,
\* and the winner, with strictly the most cells, owns neither the first cell
\* nor the smallest id
C11_Witness ==
    /\ t_out # <<>>
    /\ t_out[1].is_full
    /\ \A p \in 1..TallyPlayers : CellCount(t_grid, p) > 0
    /\ t_out[1].payload[1] # t_grid[1]
    /\ t_out[1].payload[1] # 1
    /\ \A q \in (1..TallyPlayers) \ {t_out[1].payload[1]} :
           CellCount(t_grid, q) < CellCount(t_grid, t_out[1].payload[1])

(***************************************************************************)
(* Termination of the authority (specification Spec).                      *)
(***************************************************************************)
\* the step that sends the GAME_OVER datagrams, lines 277-286
GameOverStep == b_pc = "go_send" /\ b_pc' # "go_send"

\* C12: a step that sends GAME_OVER is taken only with every cell owned by
\* a non-zero player id, and it is the step that clears the running flag;
\* once the flag is cleared it stays cleared, the termination record is not
\* computed again and nothing more is sent as GAME_OVER, so one session
\* has at most one tick that computes and sends it.
C12_GameOverOnceWhenFull ==
    [][/\ GameOverStep =>
             /\ \A i \in 1..NumCells : grid[i] # 0
             /\ compute_game_over_payload(grid).payload = b_go_payload
             /\ running /\ ~running'
       /\ ~running =>
             /\ ~running'
             /\ ~GameOverStep
             /\ b_pc' \notin {"go_lock", "go_send"}
             /\ go_sent' = go_sent
             /\ b_go_payload' = b_go_payload]_vars

\* C12 witness: the grid filled up, GAME_OVER went twice to both registered
\* endpoints, and the broadcast loop and the main loop have ended
C12_Witness ==
    /\ \A i \in 1..NumCells : grid[i] # 0
    /\ DOMAIN go_sent = Peers
    /\ \A e \in Peers : go_sent[e] = 2
    /\ ~running
    /\ b_pc = "done"
    /\ main_done

(***************************************************************************)
(* The authority on its own with an unreliable socket and disk: any sendto *)
(* may raise, and a write to the snapshot log may raise.                   *)
(***************************************************************************)
\* lines 233-238: sendto raises for any set of the captured endpoints
BroadcastSendFaulty == BroadcastSendTo(SUBSET Peers)
\* lines 277-283: per endpoint both sendto calls succeed (2 datagrams), the
\* second raises (1) or the first raises (0)
BroadcastGoSendFaulty == BroadcastGoSendTo({0, 1, 2})

\* lines 233-250: the packet has gone to every captured endpoint and
\* snap_writer.writerow or snap_csv.flush raises (OSError: the disk is
\* full); nothing in broadcast_loop catches it, so the thread ends with the
\* counters not advanced and running still True
BroadcastLogRaises ==
    /\ b_pc = "send"
    /\ ~main_done
    /\ b_packet' = SnapshotPacket
    /\ b_failed' = {}
    /\ b_sent' = b_clients
    /\ IF "c1" \in b_clients
       THEN /\ net_c1' = NetPut(net_c1, SnapshotPacket)
            /\ c1_missed' = IF Len(net_c1) < NetCap THEN c1_missed
                            ELSE c1_missed + 1
       ELSE UNCHANGED <<net_c1, c1_missed>>
    /\ b_pc' = "dead"
    /\ UNCHANGED serverVars
    /\ UNCHANGED <<b_payload, b_combined, b_clients, b_grid_state, b_go_payload,
                   go_sent, built>>
    /\ UNCHANGED <<recvVars, to_server, c1_gap, c1_last, ev_done_at, clientVars,
                   clientRxVars>>
    /\ UNCHANGED <<auditVars, tallyVars>>

NextFaulty ==
    \/ ServerRecv
    \/ BroadcastBuild
    \/ BroadcastLocked
    \/ BroadcastSendFaulty
    \/ BroadcastLogRaises
    \/ BroadcastCheck
    \/ BroadcastGoLocked
    \/ BroadcastGoSendFaulty
    \/ MainFinish

SpecFaulty == Init /\ [][NextFaulty]_vars

\* the sendto calls lines 278-283 made for an endpoint that was sent n
\* datagrams: a raise of the first call skips the second
SendtoCalls(n) == IF n = 0 THEN 1 ELSE 2

\* C13: when the authority has terminated, two sendto calls of the GAME_OVER
\* packet were made for every endpoint that was in the registration set when
\* it was captured, whether or not a call for some endpoint raised, and no
\* endpoint outside that set was sent anything.
C13_GameOverTwiceToEveryEndpoint ==
    ~running =>
        /\ DOMAIN go_sent = b_clients
        /\ \A e \in b_clients : SendtoCalls(go_sent[e]) = 2

\* the step that sends the tick's SNAPSHOT datagrams, lines 233-254
SnapshotStep == b_pc = "send" /\ b_pc' # "send"

\* C14: a step that sends SNAPSHOT is taken only while the running flag is
\* set and before any GAME_OVER record was computed or sent; once GAME_OVER
\* has been sent (the flag is cleared) no step sends SNAPSHOT, starts a tick
\* or advances the counters.
C14_NoSnapshotAfterGameOver ==
    [][/\ SnapshotStep =>
             /\ running
             /\ b_go_payload = <<>>
             /\ DOMAIN go_sent = {}
       /\ ~running =>
             /\ ~SnapshotStep
             /\ b_pc' \in {"top", "done"}
             /\ snap_log' = snap_log
             /\ seq_num' = seq_num
             /\ snapshot_id' = snapshot_id
             /\ b_packet' = b_packet]_vars

\* C14 witness: two ticks sent SNAPSHOT, then GAME_OVER was sent, and the
\* broadcast loop has ended with ticks to spare and the last packet sent
\* still the GAME_OVER packet
C14_Witness ==
    /\ Len(snap_log) = 2
    /\ snapshot_id < MaxTicks
    /\ \E e \in DOMAIN go_sent : go_sent[e] = 2
    /\ ~running
    /\ b_pc = "done"
    /\ b_packet = GameOverPacket

(***************************************************************************)
(* The authority on its own, with its broadcast thread and its main thread *)
(* scheduled again and again: a step of either that stays possible is      *)
(* eventually taken.  Nothing is assumed about the datagrams that arrive.  *)
(***************************************************************************)
\* datagrams that arrive while the threads run: a registration and the claims
\* of two players for the first cell
LiveInputsDecoded ==
    {ServerDecode(data) : data \in {PeerInit, PeerEvent(1, 0), PeerEvent(2, 0)}}
ServerRecvLive ==
    /\ \E m \in LiveInputsDecoded, addr \in Peers : ServerHandle(m, addr)
    /\ UNCHANGED rx_invalid
    /\ UNCHANGED <<netVars, clientVars, clientRxVars>>

\* one step of the broadcast thread, wherever it stands
BroadcastStep ==
    \/ BroadcastBuild
    \/ BroadcastLocked
    \/ BroadcastSend
    \/ BroadcastCheck
    \/ BroadcastGoLocked
    \/ BroadcastGoSend

NextLive ==
    \/ ServerRecvLive
    \/ BroadcastStep
    \/ MainFinish

Fairness == WF_vars(BroadcastStep) /\ WF_vars(MainFinish)

SpecLive == Init /\ [][NextLive]_vars /\ Fairness

\* every cell has a non-zero owner
GridFull == \A i \in 1..NumCells : grid[i] # 0

\* C15: once every cell has a non-zero owner (with a tick left within the
\* bound on ticks), the authority eventually has sent GAME_OVER, its running
\* flag is false, its broadcast loop takes no further step and its main loop
\* has returned.
C15_TerminationLiveness ==
    (GridFull /\ snapshot_id < MaxTicks)
        ~> (/\ ~running
            /\ main_done
            /\ b_pc \in {"top", "done"}
            /\ b_packet = GameOverPacket
            /\ DOMAIN go_sent = b_clients)

\* C15 witness: the grid filled up after the first tick, GAME_OVER was sent
\* in the second, and the main loop returned before the broadcast loop
\* tested the flag again
C15_Witness ==
    /\ GridFull
    /\ Len(snap_log) = 2
    /\ built[1] # built[2]
    /\ ~running
    /\ main_done
    /\ b_pc = "top"
    /\ b_packet = GameOverPacket

(***************************************************************************)
(* Properties of the authority with an unreliable socket and disk          *)
(* (specification SpecFaulty).                                             *)
(***************************************************************************)
\* lines 104-127 applied to a well-formed INIT datagram
PeerInitDecoded == ServerDecode(PeerInit)

\* C16: no step removes an endpoint from the registration set; a step that
\* changes the set adds exactly one endpoint that was not in it and is the
\* receive loop handling a validated INIT from that endpoint; handling a
\* validated INIT from an endpoint already in the set leaves the set as it
\* was.
C16_RegistrationAppendOnly ==
    [][/\ clients \subseteq clients'
       /\ clients' # clients =>
             \E addr \in Peers \ clients :
                 /\ clients' = clients \cup {addr}
                 /\ ServerHandle(PeerInitDecoded, addr)
       /\ \A addr \in clients :
             ServerHandle(PeerInitDecoded, addr) => clients' = clients]_vars

\* C16 witness: both peers are registered, the sendto of the last tick raised
\* for both, the first GAME_OVER sendto raised for one of them, the
\* authority has terminated, and both are still in the set
C16_Witness ==
    /\ clients = Peers
    /\ b_failed = Peers
    /\ \E e \in DOMAIN go_sent : go_sent[e] = 0
    /\ ~running
    /\ main_done

\* C17: in a tick whose SNAPSHOT sendto raises for some captured endpoints,
\* every other captured endpoint is still sent the packet and both counters
\* still advance by one; and the lock section of the next tick captures
\* again every endpoint whose sendto raised in the tick before, so that it
\* is sent the next packet too.
C17_SendFailureDoesNotAbortTick ==
    [][/\ (SnapshotStep /\ b_pc' = "check") =>
             /\ b_failed' \subseteq b_clients
             /\ b_sent' = b_clients \ b_failed'
             /\ snapshot_id' = snapshot_id + 1
             /\ seq_num' = seq_num + 1
             /\ Len(snap_log') = Len(snap_log) + 1
       /\ (b_pc = "lock" /\ b_pc' = "send") => b_failed \subseteq b_clients']_vars

\* C17 witness: in the first tick the sendto for p2 raised and p3 was sent
\* the packet, the counters went to 1, and the second tick has captured
\* both endpoints again
C17_Witness ==
    /\ b_pc = "send"
    /\ b_failed = {"p2"}
    /\ b_sent = {"p3"}
    /\ b_clients = Peers
    /\ snapshot_id = 1
    /\ seq_num = 1

\* C18: while the running flag is set, the receive loop and the broadcast
\* loop of the authority are both alive, whatever exception an iteration
\* raised: an exception never ends a loop.
C18_LoopsSurviveExceptions ==
    running => (recv_alive /\ b_pc # "dead")

(***************************************************************************)
(* Lock discipline.                                                        *)
(***************************************************************************)
\* C19: every read and every write of the authority's grid, registration
\* set and redundancy buffer is made by an activity that holds the lock: no
\* field has been accessed at a point where the lock was not held.
C19_SharedStateUnderLock == unlocked_access = {}

\* C20: no datagram is sent by an activity that holds a lock: no message
\* type has been sent at a point where the sender held its lock.
C20_NoSendUnderLock == locked_sends = {}

(***************************************************************************)
(* Properties of the client (specification SpecClient).                    *)
(***************************************************************************)
\* C21: whatever the order in which validated SNAPSHOT packets arrive, no
\* step lowers the client's last-sequence-seen cursor.
C21_CursorMonotonic ==
    [][c_metrics'.last_seq_num >= c_metrics.last_seq_num]_vars

(***************************************************************************)
(* Further properties of the authority (specification Spec).               *)
(***************************************************************************)
\* lines 104-127 applied to the well-formed EVENT datagrams with a payload
\* of 12 bytes
PeerEventsDecoded == {ServerDecode(data) : data \in PeerEvents}

\* C22: a step in which the receive loop handles a validated EVENT with a
\* payload of at least 12 bytes adds exactly one row to the event log, for
\* the cell and player the datagram names; the row's accepted flag is 1
\* exactly when the cell id is in range and the cell was unclaimed before
\* the step; when the flag is 0 the grid is unchanged; the receive loop
\* goes on to its next iteration unless the running flag is cleared.
C22_OneLogRowPerEvent ==
    [][\A m \in PeerEventsDecoded, addr \in Peers :
          ServerHandle(m, addr) =>
              LET cell_id == UnpackU16(SubSeq(m.payload, 3, 4))
                  free == cell_id \in Cells /\ grid[cell_id + 1] = 0
              IN  /\ event_count' = event_count + 1
                  /\ event_last'.from = addr
                  /\ event_last'.player_id = m.payload[1]
                  /\ event_last'.cell_id = cell_id
                  /\ event_last'.accepted = (IF free THEN 1 ELSE 0)
                  /\ ~free => grid' = grid
                  /\ recv_alive' = running]_vars

\* C22 witness: three requests were logged; the grid's cell is owned, and the
\* last request, for a cell id past the grid, was logged as not accepted with
\* the receive loop still alive
C22_Witness ==
    /\ event_count = 3
    /\ event_last.cell_id = NumCells
    /\ event_last.accepted = 0
    /\ grid[1] # 0
    /\ Len(event_accepted[0]) = 1
    /\ recv_alive

\* the step that begins a tick, line 197, and the newest blob of a packet
TickBegins == b_pc = "top" /\ b_pc' = "lock"
NewestBlob(packet) == SubSeq(packet, HEADER_SIZE + 1, HEADER_SIZE + BlobSize)

\* C23: for every request the authority accepted before a tick begins, the
\* payload built for the tick shows the requested cell owned by the
\* requester, and that payload is the newest blob of the SNAPSHOT packet the
\* tick sends, however the receive loop's steps fall between the two.
C23_AcceptedClaimInNextTick ==
    [][/\ TickBegins =>
             \A c \in Cells : \A k \in 1..Len(event_accepted[c]) :
                 b_payload'[c + 2] = event_accepted[c][k]
       /\ (b_pc = "lock" /\ b_pc' = "send") => b_payload' = b_payload
       /\ (SnapshotStep /\ b_pc' = "check") =>
             NewestBlob(b_packet') = b_payload]_vars

\* C24: the lock section of a tick captures the registration set as it is
\* then; a registration handled after the capture does not change the
\* captured set; the tick's SNAPSHOT packet is sent to exactly the captured
\* endpoints; an endpoint registered after the capture is in the set the
\* next tick captures.
C24_CapturedEndpointSet ==
    [][/\ (b_pc = "lock" /\ b_pc' = "send") => b_clients' = clients
       /\ (b_pc = "send" /\ b_pc' = "send") => b_clients' = b_clients
       /\ SnapshotStep => b_sent' = b_clients
       /\ (b_pc = "lock" /\ b_pc' = "send") =>
             (clients \ b_sent) \subseteq b_clients']_vars

\* C24 witness: p3 registered after the first tick had captured p2 alone, and
\* the tick's packet went to p2 only
C24_Witness ==
    /\ b_pc = "check"
    /\ snapshot_id = 1
    /\ b_clients = {"p2"}
    /\ b_sent = {"p2"}
    /\ clients = Peers

\* C30: in a tick that sends GAME_OVER, the SNAPSHOT packet the tick sent
\* before it has as its newest blob a grid with no unclaimed cell, however
\* the receive loop's steps fall within the tick.
C30_FinalStateBroadcast ==
    [][GameOverStep =>
          /\ HeaderUnpack(SubSeq(b_packet, 1, HEADER_SIZE)).msg_type = MSG_SNAPSHOT
          /\ \A i \in 2..BlobSize : NewestBlob(b_packet)[i] # 0]_vars

\* C31: in every tick the grid state written to the authoritative-grid log
\* under the tick's snapshot id is the grid that the newest blob of the
\* SNAPSHOT packet sent with that snapshot id carries, however the receive
\* loop's steps fall within the tick.
C31_LogPacketAgreement ==
    [][(SnapshotStep /\ b_pc' = "check") =>
          /\ pos_last'[1] = HeaderUnpack(SubSeq(b_packet', 1, HEADER_SIZE)).snapshot_id
          /\ pos_last'[2] = Tail(NewestBlob(b_packet'))]_vars

\* C32: a step in which a validated EVENT is resolved (a row is added to the
\* event log, and the grid may change) is taken only for a sender endpoint
\* that is in the registration set.
C32_OnlyRegisteredEndpointsClaim ==
    [][(event_count' # event_count \/ grid' # grid)
          => event_last'.from \in clients]_vars

(***************************************************************************)
(* The parse loop of handle_snapshot on its own: it is handed any payload  *)
(* of up to MaxPayloadLen bytes, each 0, 1 or 2, and a grid the client     *)
(* holds.                                                                  *)
(***************************************************************************)
MaxPayloadLen == 6
ParsePayloads == UNION {[1..n -> 0..2] : n \in 0..MaxPayloadLen}
ParseGrids == [1..NumCells -> {0, 2}]

InitParse ==
    /\ InitProgram
    /\ t_grid = <<>>
    /\ t_out = <<>>
    /\ p_in \in [payload : ParsePayloads, grid : ParseGrids]
    /\ p_out = <<>>
    /\ t_order = <<>>

\* lines 233-257
ParseApply ==
    /\ p_out = <<>>
    /\ p_out' = <<ParseSnapshot(p_in.payload, p_in.grid)>>
    /\ UNCHANGED <<t_grid, t_out, p_in, t_order>>
    /\ UNCHANGED <<serverVars, bcastVars, recvVars, netVars, clientVars,
                   clientRxVars, auditVars>>

NextParse == ParseApply

SpecParse == InitParse /\ [][NextParse]_vars

\* the payload is n chunks, each a dimension byte GRID_N and NumCells cells
WellFormedChunks(payload, n) ==
    /\ Len(payload) = n * BlobSize
    /\ \A j \in 1..n : BlobAt(payload, j)[1] = GRID_N

\* C25: for a payload made of n >= 1 well-formed chunks the grid after the
\* parse is the cells of the first chunk, all of them, and the redundancy
\* count is n - 1; for a payload whose first chunk is cut short or has
\* another dimension byte the grid after the parse is the grid before it.
C25_FirstChunkApplied ==
    p_out # <<>> =>
        /\ \A n \in 1..MaxPayloadLen :
               WellFormedChunks(p_in.payload, n) =>
                   /\ p_out[1].grid = Tail(BlobAt(p_in.payload, 1))
                   /\ p_out[1].redundancy_used = n - 1
        /\ (Len(p_in.payload) < BlobSize \/ p_in.payload[1] # GRID_N) =>
               /\ p_out[1].grid = p_in.grid
               /\ p_out[1].redundancy_used = 0

\* C25 witness: a payload of three well-formed chunks with different cells
\* was parsed over a grid that differs from all of them
C25_Witness ==
    /\ p_out # <<>>
    /\ WellFormedChunks(p_in.payload, 3)
    /\ BlobAt(p_in.payload, 1) # BlobAt(p_in.payload, 2)
    /\ BlobAt(p_in.payload, 2) # BlobAt(p_in.payload, 3)
    /\ p_in.grid # Tail(BlobAt(p_in.payload, 1))
    /\ p_out[1].redundancy_used = 2

(***************************************************************************)
(* Further properties of the client (specification SpecClient).            *)
(***************************************************************************)
\* C26: a step in which the client sends a claim leaves its grid as it was;
\* a step that changes the grid is the receive loop handling a validated
\* SNAPSHOT datagram, and the grid after it is the cells of that datagram's
\* first chunk.
C26_NoOptimisticMutation ==
    [][/\ to_server' # to_server => c_grid' = c_grid
       /\ c_clicks' # c_clicks => c_grid' = c_grid
       /\ c_grid' # c_grid =>
             \E in \in ClientInputs :
                 /\ ~in[2]
                 /\ in[1].ok
                 /\ in[1].msg_type = MSG_SNAPSHOT
                 /\ ClientHandle(in[1])
                 /\ c_grid' = Tail(BlobAt(in[1].payload, 1))]_vars

\* C26 witness: the client's two EVENT datagrams for the one cell are on
\* their way after its INIT, and its grid shows the cell as its own after a
\* SNAPSHOT that carried that ownership
C26_Witness ==
    /\ c_clicks = 1
    /\ Len(to_server) = 3
    /\ c_seq_seen # <<>>
    /\ c_grid[1] = c_player_id

\* C27: a click handled while the game-over flag is set sends nothing; a
\* click that leads to a claim attempt (the cell is shown unclaimed and the
\* flag is not set) appends exactly two identical EVENT datagrams for that
\* cell, one right after the other; any other step that sends appends one
\* INIT datagram, so no EVENT is ever sent again later.
C27_FixedDoubleSend ==
    [][/\ (c_clicks' # c_clicks /\ c_game_over) => to_server' = to_server
       /\ (c_clicks' # c_clicks /\ ~c_game_over) =>
             \/ /\ to_server' = to_server
                /\ \E cell_id \in Cells : c_grid[cell_id + 1] # 0
             \/ \E cell_id \in Cells :
                   /\ c_grid[cell_id + 1] = 0
                   /\ to_server' = to_server \o
                          <<ClientEventPacket(c_player_id, cell_id),
                            ClientEventPacket(c_player_id, cell_id)>>
       /\ (c_clicks' = c_clicks /\ to_server' # to_server) =>
             /\ ~c_started
             /\ to_server' = Append(to_server, ClientInitPacket(c_player_id))]_vars

\* C27 witness: one click was made before the game was over, its two equal
\* EVENT datagrams follow the INIT, and nothing was sent after them although
\* the client has since learnt that the game is over
C27_Witness ==
    /\ c_clicks = 1
    /\ Len(to_server) = 3
    /\ to_server[2] = to_server[3]
    /\ to_server[2][6] = MSG_EVENT
    /\ c_game_over

(***************************************************************************)
(* The claim test and compute_game_over_payload together on a grid of      *)
(* TallyCells cells: players 1..TallyPlayers have their claims processed   *)
(* one by one in any order, then the termination record is computed.       *)
(***************************************************************************)
InitClaimOrder ==
    /\ InitProgram
    /\ t_grid = [i \in 1..TallyCells |-> 0]
    /\ t_out = <<>>
    /\ p_in = <<>>
    /\ p_out = <<>>
    /\ t_order = <<>>

\* lines 145-148 for a request of player p for the cell at index c
TallyClaim(p, c) ==
    /\ t_out = <<>>
    /\ IF t_grid[c] = 0
       THEN /\ t_grid' = [t_grid EXCEPT ![c] = p]
            /\ t_order' = IF \E k \in 1..Len(t_order) : t_order[k] = p
                          THEN t_order ELSE Append(t_order, p)
       ELSE UNCHANGED <<t_grid, t_order>>
    /\ UNCHANGED <<t_out, p_in, p_out>>
    /\ UNCHANGED <<serverVars, bcastVars, recvVars, netVars, clientVars,
                   clientRxVars, auditVars>>
TallyClaims == \E p \in 1..TallyPlayers, c \in 1..TallyCells : TallyClaim(p, c)

NextClaimOrder ==
    \/ TallyClaims
    \/ TallyCompute

SpecClaimOrder == InitClaimOrder /\ [][NextClaimOrder]_vars

\* the players with the largest cell count, the position of a player in the
\* order of first accepted claims, and the lowest cell index a player owns
TiedPlayers(g) ==
    {p \in 1..TallyPlayers :
        CellCount(g, p) > 0
            /\ \A q \in 1..TallyPlayers : CellCount(g, q) <= CellCount(g, p)}
ClaimRank(p) == CHOOSE k \in 1..Len(t_order) : t_order[k] = p
LowestCell(g, p) == CHOOSE i \in DOMAIN g :
    g[i] = p /\ \A j \in DOMAIN g : g[j] = p => i <= j

\* C28: when players tie for the largest cell count, the winner in the
\* termination record is the tied player whose first accepted claim the
\* authority processed before the first accepted claim of every other tied
\* player.
C28_TieBreakByFirstClaim ==
    (t_out # <<>> /\ t_out[1].is_full) =>
        LET w == t_out[1].payload[1]
        IN  /\ w \in TiedPlayers(t_grid)
            /\ \A p \in TiedPlayers(t_grid) : ClaimRank(w) <= ClaimRank(p)

\* C28 as the code has it: when players tie for the largest cell count, the
\* winner is the tied player met first in the scan of the grid from cell 0
\* upwards, the one that owns the lowest-numbered cell among the cells of
\* the tied players, whatever the player ids and the order of the claims.
C28_TieBreakByGridScan ==
    (t_out # <<>> /\ t_out[1].is_full) =>
        LET w == t_out[1].payload[1]
        IN  /\ w \in TiedPlayers(t_grid)
            /\ \A p \in TiedPlayers(t_grid) :
                   LowestCell(t_grid, w) <= LowestCell(t_grid, p)

\* C28 witness: two players tie for the largest count; the winner is neither
\* the one with the smaller id nor the one whose claim was accepted first
C28_Witness ==
    /\ t_out # <<>>
    /\ t_out[1].is_full
    /\ Cardinality(TiedPlayers(t_grid)) = 2
    /\ \E p \in TiedPlayers(t_grid) : p < t_out[1].payload[1]
    /\ \E p \in TiedPlayers(t_grid) : ClaimRank(p) < ClaimRank(t_out[1].payload[1])

\* C29: whatever the order in which validated SNAPSHOT packets are delivered,
\* no step turns a cell that the client's grid shows as owned into an
\* unclaimed one, and a packet whose sequence number lies below the cursor
\* (one older than a packet already applied) does not change the grid.
C29_GridNeverRegresses ==
    [][/\ \A i \in 1..NumCells : c_grid[i] # 0 => c_grid'[i] # 0
       /\ c_metrics'.last_seq_num < c_metrics.last_seq_num
             => c_grid' = c_grid]_vars

\* the sequence numbers handled so far came in strictly increasing order
InOrderNoDuplicates ==
    \A k \in 1..(Len(c_seq_seen) - 1) : c_seq_seen[k] < c_seq_seen[k + 1]
\* the sequence numbers handled so far
SeqReceived == {c_seq_seen[k] : k \in 1..Len(c_seq_seen)}

\* C33: as long as the validated SNAPSHOT packets have reached the client in
\* increasing sequence order without duplicates, the lost total is the
\* number of sequence numbers strictly between the first and the latest
\* received one that were not received, the duplicate count is 0, and the
\* sequence numbers below the first received one are not counted.
C33_ExactLossCount ==
    (c_seq_seen # <<>> /\ InOrderNoDuplicates) =>
        LET first == c_seq_seen[1]
            latest == c_seq_seen[Len(c_seq_seen)]
        IN  /\ c_metrics.lost_sequences =
                   Cardinality({s \in (first + 1)..(latest - 1) :
                                   s \notin SeqReceived})
            /\ c_metrics.duplicate_packets = 0
            /\ c_metrics.last_seq_num = latest
            /\ c_metrics.total_packets_received = Len(c_seq_seen)

\* C33 witness: the packets 1, 3 and 5 were received in this order: packet 0
\* was missed before the first one and is not counted, 2 and 4 are
C33_Witness ==
    /\ c_seq_seen = <<1, 3, 5>>
    /\ c_metrics.lost_sequences = 2
    /\ c_metrics.duplicate_packets = 0

====
